---- MODULE Spec2Model ----
(***************************************************************************)
(* Forex and Lagrange interpolation (src/main.py): the numeric evaluator    *)
(* of ForexData over the embedded 2002-2003 series, the exact polynomial    *)
(* builder of ForexLagrangeApp, and the handlers of the point-entry form.   *)
(*                                                                          *)
(* Python values are modelled by what they are:                             *)
(*   int       unbounded integers: a sign and a magnitude in limbs          *)
(*   float     IEEE-754 binary64, round-to-nearest-even: sign, 53-bit       *)
(*             mantissa, exponent (no overflow or subnormals occur in the   *)
(*             ranges reached; zero carries no sign)                        *)
(*   Fraction  <<numerator, denominator>> in lowest terms, denominator > 0  *)
(*   str       sequences of one-character strings                           *)
(***************************************************************************)
EXTENDS Integers, Sequences, FiniteSets, TLC

(***************************************************************************)
(* Unbounded naturals: little-endian limbs, no leading zero limb.           *)
(***************************************************************************)
Base == 2^15

RECURSIVE BNorm(_)
BNorm(a) ==
    IF a = <<>> THEN <<>>
    ELSE IF a[Len(a)] = 0 THEN BNorm(SubSeq(a, 1, Len(a) - 1)) ELSE a

RECURSIVE BFromNat(_)
BFromNat(n) ==
    IF n = 0 THEN <<>> ELSE <<n % Base>> \o BFromNat(n \div Base)

RECURSIVE BToNat(_)
BToNat(a) ==
    IF a = <<>> THEN 0 ELSE a[1] + Base * BToNat(Tail(a))

Limb(a, i) == IF i <= Len(a) THEN a[i] ELSE 0

BMax(x, y) == IF x >= y THEN x ELSE y

BMin(x, y) == IF x <= y THEN x ELSE y

RECURSIVE BAddFrom(_, _, _, _)
BAddFrom(a, b, i, carry) ==
    IF i > BMax(Len(a), Len(b))
    THEN IF carry = 0 THEN <<>> ELSE <<carry>>
    ELSE LET t == Limb(a, i) + Limb(b, i) + carry
         IN  <<t % Base>> \o BAddFrom(a, b, i + 1, t \div Base)

BAdd(a, b) == BAddFrom(a, b, 1, 0)

RECURSIVE BCmpFrom(_, _, _)
BCmpFrom(a, b, i) ==
    IF i = 0 THEN 0
    ELSE IF a[i] > b[i] THEN 1
    ELSE IF a[i] < b[i] THEN -1
    ELSE BCmpFrom(a, b, i - 1)

\* -1, 0, 1 as a < b, a = b, a > b (both normalised)
BCmp(a, b) ==
    IF Len(a) > Len(b) THEN 1
    ELSE IF Len(a) < Len(b) THEN -1
    ELSE BCmpFrom(a, b, Len(a))

RECURSIVE BSubFrom(_, _, _, _)
BSubFrom(a, b, i, borrow) ==
    IF i > Len(a) THEN <<>>
    ELSE LET t == a[i] - Limb(b, i) - borrow
         IN  IF t < 0
             THEN <<t + Base>> \o BSubFrom(a, b, i + 1, 1)
             ELSE <<t>> \o BSubFrom(a, b, i + 1, 0)

\* a - b for a >= b
BSub(a, b) == BNorm(BSubFrom(a, b, 1, 0))

RECURSIVE BMulSmallFrom(_, _, _, _)
BMulSmallFrom(a, k, i, carry) ==
    IF i > Len(a)
    THEN IF carry = 0 THEN <<>> ELSE <<carry>>
    ELSE LET t == a[i] * k + carry
         IN  <<t % Base>> \o BMulSmallFrom(a, k, i + 1, t \div Base)

\* a * k for 0 <= k < Base
BMulSmall(a, k) == IF k = 0 THEN <<>> ELSE BMulSmallFrom(a, k, 1, 0)

RECURSIVE BMul(_, _)
BMul(a, b) ==
    IF b = <<>> \/ a = <<>> THEN <<>>
    ELSE LET rest == BMul(a, Tail(b))
         IN  BAdd(BMulSmall(a, b[1]), IF rest = <<>> THEN <<>> ELSE <<0>> \o rest)

RECURSIVE SmallBitLen(_)
SmallBitLen(n) == IF n = 0 THEN 0 ELSE 1 + SmallBitLen(n \div 2)

BBitLen(a) ==
    IF a = <<>> THEN 0 ELSE 15 * (Len(a) - 1) + SmallBitLen(a[Len(a)])

Zeros(n) == [i \in 1..n |-> 0]

\* a * 2^s
BShl(a, s) ==
    IF a = <<>> THEN <<>>
    ELSE Zeros(s \div 15) \o BMulSmall(a, 2^(s % 15))

RECURSIVE BDivSmallFrom(_, _, _, _)
BDivSmallFrom(a, k, i, rem) ==
    IF i = 0 THEN <<>>
    ELSE LET t == rem * Base + a[i]
         IN  BDivSmallFrom(a, k, i - 1, t % k) \o <<t \div k>>

\* floor(a / k) for 0 < k < Base
BDivSmall(a, k) == BNorm(BDivSmallFrom(a, k, Len(a), 0))

RECURSIVE BModSmallFrom(_, _, _, _)
BModSmallFrom(a, k, i, rem) ==
    IF i = 0 THEN rem ELSE BModSmallFrom(a, k, i - 1, (rem * Base + a[i]) % k)

BModSmall(a, k) == BModSmallFrom(a, k, Len(a), 0)

\* floor(a / 2^s)
BShr(a, s) ==
    IF s \div 15 >= Len(a) THEN <<>>
    ELSE BDivSmall(SubSeq(a, s \div 15 + 1, Len(a)), 2^(s % 15))

\* a mod 2^s
BLow(a, s) ==
    LET w == s \div 15
    IN  IF w >= Len(a) THEN a
        ELSE BNorm(SubSeq(a, 1, w) \o <<a[w + 1] % 2^(s % 15)>>)

BIsOdd(a) == a # <<>> /\ a[1] % 2 = 1

\* The largest q in lo..hi with q * D <= R (lo * D <= R is given)
RECURSIVE QuotientLimb(_, _, _, _)
QuotientLimb(R, D, lo, hi) ==
    IF lo = hi THEN lo
    ELSE LET mid == (lo + hi + 1) \div 2
         IN  IF BCmp(BMulSmall(D, mid), R) <= 0
             THEN QuotientLimb(R, D, mid, hi)
             ELSE QuotientLimb(R, D, lo, mid - 1)

\* Long division of the limbs i..Len(A) of A by D: <<quotient, remainder>>
RECURSIVE BDivModFrom(_, _, _)
BDivModFrom(A, D, i) ==
    IF i > Len(A) THEN <<(<<>>), (<<>>)>>
    ELSE LET prev == BDivModFrom(A, D, i + 1)
             R    == BNorm(<<A[i]>> \o prev[2])
             q    == QuotientLimb(R, D, 0, Base - 1)
         IN  <<BNorm(<<q>> \o prev[1]), BSub(R, BMulSmall(D, q))>>

\* <<floor(A / D), A mod D>> for D # 0
BDivMod(A, D) == BDivModFrom(A, D, 1)

BOne == <<1>>

(***************************************************************************)
(* Python int: a sign and a magnitude.                                      *)
(***************************************************************************)
Abs(n) == IF n < 0 THEN -n ELSE n

PyInt(n) == [neg |-> n < 0, mag |-> BFromNat(Abs(n))]

PyIntMul(a, b) ==
    LET mag == BMul(a.mag, b.mag)
    IN  [neg |-> mag # <<>> /\ a.neg # b.neg, mag |-> mag]

(***************************************************************************)
(* Python float: binary64.  value = (-1)^s * m * 2^e with m = 0 or          *)
(* 2^52 <= m < 2^53.  Every operation is the exact result rounded to        *)
(* nearest, ties to even.                                                   *)
(***************************************************************************)
DoublePrecision == 53

DZero == [s |-> 0, m |-> <<>>, e |-> 0]

\* The double nearest to (-1)^s * M * 2^e; sticky says that the exact value
\* lies strictly above M * 2^e (bits below M were cut off).
RoundBig(s, M, e, sticky) ==
    IF M = <<>> THEN DZero
    ELSE LET L == BBitLen(M)
         IN  IF L <= DoublePrecision
             THEN [s |-> s, m |-> BShl(M, DoublePrecision - L), e |-> e - (DoublePrecision - L)]
             ELSE LET sh   == L - DoublePrecision
                      top  == BShr(M, sh)
                      c    == BCmp(BLow(M, sh), BShl(BOne, sh - 1))
                      up   == c = 1 \/ (c = 0 /\ (sticky \/ BIsOdd(top)))
                      m1   == IF up THEN BAdd(top, BOne) ELSE top
                  IN  IF BBitLen(m1) > DoublePrecision
                      THEN [s |-> s, m |-> BShr(m1, 1), e |-> e + sh + 1]
                      ELSE [s |-> s, m |-> m1, e |-> e + sh]

\* float(int)
PyIntToFloat(a) == RoundBig(IF a.neg THEN 1 ELSE 0, a.mag, 0, FALSE)

DMul(a, b) ==
    IF a.m = <<>> \/ b.m = <<>> THEN DZero
    ELSE RoundBig((a.s + b.s) % 2, BMul(a.m, b.m), a.e + b.e, FALSE)

\* a / b for b # 0
DDiv(a, b) ==
    IF a.m = <<>> THEN DZero
    ELSE LET k  == DoublePrecision + 2
             qr == BDivMod(BShl(a.m, k), b.m)
         IN  RoundBig((a.s + b.s) % 2, qr[1], a.e - b.e - k, qr[2] # <<>>)

DAdd(a, b) ==
    IF a.m = <<>> THEN b
    ELSE IF b.m = <<>> THEN a
    ELSE LET e0 == BMin(a.e, b.e)
             A  == BShl(a.m, a.e - e0)
             B  == BShl(b.m, b.e - e0)
             c  == BCmp(A, B)
         IN  IF a.s = b.s THEN RoundBig(a.s, BAdd(A, B), e0, FALSE)
             ELSE IF c = 0 THEN DZero
             ELSE IF c = 1 THEN RoundBig(a.s, BSub(A, B), e0, FALSE)
             ELSE RoundBig(b.s, BSub(B, A), e0, FALSE)

\* |a| <= |b|
DAbsLessEq(a, b) ==
    IF a.m = <<>> THEN TRUE
    ELSE IF b.m = <<>> THEN FALSE
    ELSE a.e < b.e \/ (a.e = b.e /\ BCmp(a.m, b.m) <= 0)

\* a - b
DSub(a, b) == DAdd(a, [b EXCEPT !.s = 1 - b.s])

\* The float a decimal literal p/q (q > 0) denotes, and float(Fraction(p, q)):
\* the rational correctly rounded.
FloatOfRatio(p, q) == DDiv(PyIntToFloat(PyInt(p)), PyIntToFloat(PyInt(q)))

\* Whether float d is exactly the rational p/q (q > 0)
FloatEqualsRatio(d, p, q) ==
    IF p = 0 THEN d.m = <<>>
    ELSE /\ d.m # <<>>
         /\ (d.s = 1) = (p < 0)
         /\ IF d.e >= 0
            THEN BMul(BShl(d.m, d.e), BFromNat(q)) = BFromNat(Abs(p))
            ELSE BMul(d.m, BFromNat(q)) = BShl(BFromNat(Abs(p)), -d.e)

(***************************************************************************)
(* str of digits, and the "{:.4f}" format of a float.                       *)
(***************************************************************************)
DigitChars == <<"0", "1", "2", "3", "4", "5", "6", "7", "8", "9">>

Digits4(n) ==
    <<DigitChars[(n \div 1000) + 1], DigitChars[((n \div 100) % 10) + 1],
      DigitChars[((n \div 10) % 10) + 1], DigitChars[(n % 10) + 1]>>

RECURSIVE StripZeros(_)
StripZeros(str) ==
    IF str # <<>> /\ str[1] = "0" THEN StripZeros(Tail(str)) ELSE str

RECURSIVE BToDecimalPadded(_)
BToDecimalPadded(a) ==
    IF a = <<>> THEN <<>>
    ELSE BToDecimalPadded(BDivSmall(a, 10000)) \o Digits4(BModSmall(a, 10000))

\* The decimal digits of a natural (empty for 0)
BToDecimal(a) == StripZeros(BToDecimalPadded(a))

\* round-half-even of |d| * 10^4, as a natural
TenThousandths(d) ==
    IF d.m = <<>> THEN <<>>
    ELSE LET T == BMulSmall(d.m, 10000)
         IN  IF d.e >= 0 THEN BShl(T, d.e)
             ELSE LET sh  == -d.e
                      top == BShr(T, sh)
                      c   == BCmp(BLow(T, sh), BShl(BOne, sh - 1))
                  IN  IF c = 1 \/ (c = 0 /\ BIsOdd(top)) THEN BAdd(top, BOne) ELSE top

PadLeft(str, n) == [i \in 1..(n - Len(str)) |-> "0"] \o str

\* f"{d:.4f}"
Format4f(d) ==
    LET dec == BToDecimal(TenThousandths(d))
        all == IF Len(dec) < 5 THEN PadLeft(dec, 5) ELSE dec
        n   == Len(all)
    IN  (IF d.s = 1 THEN <<"-">> ELSE <<>>)
        \o SubSeq(all, 1, n - 4) \o <<".">> \o SubSeq(all, n - 3, n)

(***************************************************************************)
(* datetime.strptime(date_str, "%Y-%m-%d") and date arithmetic.             *)
(***************************************************************************)
IsDigit(c) == \E i \in 1..10 : DigitChars[i] = c

DigitValue(c) == (CHOOSE i \in 1..10 : DigitChars[i] = c) - 1

\* _strptime's regex for %m: 1[0-2]|0[1-9]|[1-9]
MatchesMonth(str) ==
    \/ Len(str) = 2 /\ str[1] = "1" /\ str[2] \in {"0", "1", "2"}
    \/ Len(str) = 2 /\ str[1] = "0" /\ IsDigit(str[2]) /\ str[2] # "0"
    \/ Len(str) = 1 /\ IsDigit(str[1]) /\ str[1] # "0"

\* _strptime's regex for %d: 3[0-1]|[1-2]\d|0[1-9]|[1-9]| [1-9]
MatchesDay(str) ==
    \/ Len(str) = 2 /\ str[1] = "3" /\ str[2] \in {"0", "1"}
    \/ Len(str) = 2 /\ str[1] \in {"1", "2"} /\ IsDigit(str[2])
    \/ Len(str) = 2 /\ str[1] \in {"0", " "} /\ IsDigit(str[2]) /\ str[2] # "0"
    \/ Len(str) = 1 /\ IsDigit(str[1]) /\ str[1] # "0"

\* int() of a matched group: digits, a leading space ignored
RECURSIVE GroupValue(_)
GroupValue(str) ==
    IF str = <<>> THEN 0
    ELSE IF str[Len(str)] = " " THEN 0
    ELSE DigitValue(str[Len(str)]) + 10 * GroupValue(SubSeq(str, 1, Len(str) - 1))

\* The lengths mlen of the month group for which the whole string matches
\* \d\d\d\d-(month)-(day) with nothing left over
MonthSplits(str) ==
    {mlen \in {1, 2} :
        /\ Len(str) >= 6 + mlen + 1
        /\ \A i \in 1..4 : IsDigit(str[i])
        /\ str[5] = "-"
        /\ MatchesMonth(SubSeq(str, 6, 5 + mlen))
        /\ str[6 + mlen] = "-"
        /\ MatchesDay(SubSeq(str, 7 + mlen, Len(str)))}

IsLeap(year) == year % 4 = 0 /\ (year % 100 # 0 \/ year % 400 = 0)

DaysInMonth(year, month) ==
    IF month = 2 THEN (IF IsLeap(year) THEN 29 ELSE 28)
    ELSE IF month \in {4, 6, 9, 11} THEN 30 ELSE 31

RECURSIVE DaysBeforeMonth(_, _)
DaysBeforeMonth(year, month) ==
    IF month = 1 THEN 0
    ELSE DaysBeforeMonth(year, month - 1) + DaysInMonth(year, month - 1)

DaysBeforeYear(year) ==
    LET y == year - 1
    IN  y * 365 + (y \div 4) - (y \div 100) + (y \div 400)

\* date.toordinal()
Ordinal(year, month, day) ==
    DaysBeforeYear(year) + DaysBeforeMonth(year, month) + day

\* datetime.strptime(date_str, "%Y-%m-%d"): the date, or ValueError (no
\* match, unconverted data, year 0, day out of range for the month)
Strptime(date_str) ==
    LET splits == MonthSplits(date_str)
    IN  IF splits = {} THEN [raised |-> "ValueError"]
        ELSE LET mlen  == CHOOSE m \in splits : TRUE
                 year  == GroupValue(SubSeq(date_str, 1, 4))
                 month == GroupValue(SubSeq(date_str, 6, 5 + mlen))
                 day   == GroupValue(SubSeq(date_str, 7 + mlen, Len(date_str)))
             IN  IF year < 1 \/ day > DaysInMonth(year, month)
                 THEN [raised |-> "ValueError"]
                 ELSE [raised |-> "none", year |-> year, month |-> month, day |-> day]

\* ForexData.date_to_num: days since 2002-01-01, or the ValueError of strptime
date_to_num(date_str) ==
    LET target_date == Strptime(date_str)
    IN  IF target_date.raised # "none" THEN target_date
        ELSE [raised |-> "none",
              value  |-> Ordinal(target_date.year, target_date.month, target_date.day)
                         - Ordinal(2002, 1, 1)]

(***************************************************************************)
(* The embedded series (ForexLagrangeApp.__init__) and ForexData.           *)
(***************************************************************************)
Pad2(n) == <<DigitChars[(n \div 10) + 1], DigitChars[(n % 10) + 1]>>

\* "YYYY-MM-DD"
IsoDate(year, month, day) ==
    Digits4(year) \o <<"-">> \o Pad2(month) \o <<"-">> \o Pad2(day)

\* self.dates: the first day of each month of 2002 and 2003
dates == [k \in 1..24 |-> IsoDate(2002 + ((k - 1) \div 12), ((k - 1) % 12) + 1, 1)]

\* The rate literals, in ten-thousandths
RateLiterals ==
    <<265850, 262703, 267617, 272878, 273863, 286447, 280576, 280241,
      285094, 290770, 299216, 301003, 311729, 321087, 328384, 321492,
      340153, 354584, 355996, 358302, 363606, 381060, 396118, 408515>>

\* self.exchange_rates: the floats the literals denote
exchange_rates == [k \in 1..24 |-> FloatOfRatio(RateLiterals[k], 10000)]

\* self.date_values
date_values == [k \in 1..24 |-> date_to_num(dates[k]).value]

\* The product of (x - x_data[j]) over j in lo..hi, j # i, in Python int
\* arithmetic (exact, so the grouping of the factors does not matter)
RECURSIVE ProductOfDifferences(_, _, _, _, _)
ProductOfDifferences(x, x_data, i, lo, hi) ==
    IF lo > hi THEN PyInt(1)
    ELSE IF lo = hi THEN (IF lo = i THEN PyInt(1) ELSE PyInt(x - x_data[lo]))
    ELSE LET mid == (lo + hi) \div 2
         IN  PyIntMul(ProductOfDifferences(x, x_data, i, lo, mid),
                      ProductOfDifferences(x, x_data, i, mid + 1, hi))

\* A variant whose inner loop stops one short, for j in range(n - 1)
LagrangeTermOffByOne(x, x_data, y_data, i) ==
    LET n           == Len(x_data)
        numerator   == ProductOfDifferences(x, x_data, i, 1, n - 1)
        denominator == ProductOfDifferences(x_data[i], x_data, i, 1, n - 1)
    IN  DDiv(DMul(y_data[i], PyIntToFloat(numerator)), PyIntToFloat(denominator))

\* y_data[i] * numerator / denominator of ForexData.lagrange_interpolation
LagrangeTerm(x, x_data, y_data, i) ==
    LET n           == Len(x_data)
        numerator   == ProductOfDifferences(x, x_data, i, 1, n)
        denominator == ProductOfDifferences(x_data[i], x_data, i, 1, n)
    IN  DDiv(DMul(y_data[i], PyIntToFloat(numerator)), PyIntToFloat(denominator))

\* TRUE, once v has been computed: the terms are computed before they are
\* summed, so that the evaluation of the sum does not nest one in the other
Evaluated(v) == v = v

\* result after the first k iterations of the loop over i
RECURSIVE PartialSum(_, _)
PartialSum(terms, k) ==
    IF k = 0 THEN DZero ELSE DAdd(PartialSum(terms, k - 1), terms[k])

\* ForexData.lagrange_interpolation for pairwise distinct x_data
lagrange_interpolation(x, x_data, y_data) ==
    LET terms == [i \in 1..Len(x_data) |-> LagrangeTerm(x, x_data, y_data, i)]
    IN  IF Evaluated(terms) THEN PartialSum(terms, Len(x_data)) ELSE DZero

InvalidDateMessage == "Invalid date format. Please enter a date in YYYY-MM-DD format."

\* ForexData.interpolate_exchange_rate: the returned message, with the local
\* target_value
interpolate_exchange_rate(target_date_str) ==
    LET num == date_to_num(target_date_str)
    IN  IF num.raised = "ValueError"
        THEN [text |-> <<InvalidDateMessage>>, target_value |-> [kind |-> "none"]]
        ELSE LET target_value == lagrange_interpolation(num.value, date_values, exchange_rates)
             IN  [text |-> <<"Interpolated exchange rate for ", target_date_str, ": ",
                             Format4f(target_value)>>,
                  target_value |-> target_value]

(***************************************************************************)
(* fractions.Fraction: <<numerator, denominator>>, lowest terms.            *)
(***************************************************************************)
RECURSIVE GCD(_, _)
GCD(a, b) == IF b = 0 THEN a ELSE GCD(b, a % b)

\* Fraction(n, d) for d # 0
Frac(n, d) ==
    LET g  == GCD(Abs(n), Abs(d))
        sg == IF d < 0 THEN -1 ELSE 1
    IN  <<sg * (n \div g), sg * (d \div g)>>

FZero == <<0, 1>>

FOne == <<1, 1>>

FAdd(a, b) == Frac(a[1] * b[2] + b[1] * a[2], a[2] * b[2])

FSub(a, b) == Frac(a[1] * b[2] - b[1] * a[2], a[2] * b[2])

FMul(a, b) == Frac(a[1] * b[1], a[2] * b[2])

\* a / b for b # 0
FDiv(a, b) == Frac(a[1] * b[2], a[2] * b[1])

\* float(Fraction)
FractionToFloat(a) == FloatOfRatio(a[1], a[2])

(***************************************************************************)
(* Parsing the text of an Entry: Fraction(str), float(str), int(str).       *)
(* The grammar covered: an optional sign, digits, and "/" digits or         *)
(* "." digits; any other text raises ValueError.                            *)
(***************************************************************************)
AllDigits(str) == \A i \in 1..Len(str) : IsDigit(str[i])

IndexOf(str, c) ==
    IF \E i \in 1..Len(str) : str[i] = c
    THEN CHOOSE i \in 1..Len(str) : str[i] = c /\ \A j \in 1..(i - 1) : str[j] # c
    ELSE 0

HasSign(str) == str # <<>> /\ str[1] \in {"-", "+"}

Unsigned(str) == IF HasSign(str) THEN Tail(str) ELSE str

SignOf(str) == IF str # <<>> /\ str[1] = "-" THEN -1 ELSE 1

\* The rational a decimal text "ddd.ddd" denotes, or ValueError
DecimalText(str) ==
    LET body == Unsigned(str)
        dot  == IndexOf(body, ".")
        ip   == IF dot = 0 THEN body ELSE SubSeq(body, 1, dot - 1)
        fp   == IF dot = 0 THEN <<>> ELSE SubSeq(body, dot + 1, Len(body))
    IN  IF AllDigits(ip) /\ AllDigits(fp) /\ Len(ip) + Len(fp) > 0
        THEN [raised |-> "none",
              value  |-> Frac(SignOf(str) * (GroupValue(ip) * 10^Len(fp) + GroupValue(fp)),
                              10^Len(fp))]
        ELSE [raised |-> "ValueError"]

\* Fraction(str)
FractionOfText(str) ==
    LET body  == Unsigned(str)
        slash == IndexOf(body, "/")
        num   == SubSeq(body, 1, slash - 1)
        den   == SubSeq(body, slash + 1, Len(body))
    IN  IF slash = 0 THEN DecimalText(str)
        ELSE IF ~(AllDigits(num) /\ AllDigits(den) /\ num # <<>> /\ den # <<>>)
        THEN [raised |-> "ValueError"]
        ELSE IF GroupValue(den) = 0 THEN [raised |-> "ZeroDivisionError"]
        ELSE [raised |-> "none",
              value  |-> Frac(SignOf(str) * GroupValue(num), GroupValue(den))]

\* float(str): the float, with the rational its text denotes
FloatOfText(str) ==
    LET dec == DecimalText(str)
    IN  IF dec.raised # "none" THEN dec
        ELSE [raised |-> "none", ratio |-> dec.value, value |-> FractionToFloat(dec.value)]

\* int(str)
IntOfText(str) ==
    IF AllDigits(Unsigned(str)) /\ Unsigned(str) # <<>>
    THEN [raised |-> "none", value |-> SignOf(str) * GroupValue(Unsigned(str))]
    ELSE [raised |-> "ValueError"]

(***************************************************************************)
(* sympy expressions in x, in canonical form:                               *)
(*   Poly       rational coefficients, coeffs[k] of x^(k-1), no trailing 0  *)
(*   Float      a floating-point constant                                   *)
(*   NonFinite  zoo or nan (a division by the rational 0)                   *)
(* and the Python int before it meets an expression.                        *)
(***************************************************************************)
RECURSIVE PolyTrim(_)
PolyTrim(c) ==
    IF c # <<>> /\ c[Len(c)] = FZero THEN PolyTrim(SubSeq(c, 1, Len(c) - 1)) ELSE c

Coeff(c, k) == IF k >= 1 /\ k <= Len(c) THEN c[k] ELSE FZero

PolyAdd(p, q) ==
    PolyTrim([k \in 1..BMax(Len(p), Len(q)) |-> FAdd(Coeff(p, k), Coeff(q, k))])

PolyScale(p, a) == PolyTrim([k \in 1..Len(p) |-> FMul(p[k], a)])

\* p * (x - a)
PolyMulLinear(p, a) ==
    IF p = <<>> THEN <<>>
    ELSE PolyTrim([k \in 1..(Len(p) + 1) |-> FSub(Coeff(p, k - 1), FMul(a, Coeff(p, k)))])

\* The value of the polynomial at the rational a
RECURSIVE PolyEvalFrom(_, _, _)
PolyEvalFrom(c, a, k) ==
    IF k > Len(c) THEN FZero ELSE FAdd(c[k], FMul(a, PolyEvalFrom(c, a, k + 1)))

PolyEval(c, a) == PolyEvalFrom(c, a, 1)

PyOne == [kind |-> "int", value |-> 1]

PyNought == [kind |-> "int", value |-> 0]

\* numerator *= (x - a)
TimesLinear(numerator, a) ==
    IF numerator.kind = "int"
    THEN [kind |-> "Poly", coeffs |-> PolyMulLinear(<<Frac(numerator.value, 1)>>, a)]
    ELSE [kind |-> "Poly", coeffs |-> PolyMulLinear(numerator.coeffs, a)]

\* denominator *= d for a Fraction d
TimesFraction(denominator, d) ==
    IF denominator.kind = "int"
    THEN [kind |-> "Fraction", value |-> FMul(Frac(denominator.value, 1), d)]
    ELSE [kind |-> "Fraction", value |-> FMul(denominator.value, d)]

\* numerator / denominator: the true division of two ints is a float; an
\* expression divided by the rational 0 is zoo times the expression
Quotient(numerator, denominator) ==
    IF numerator.kind = "int" /\ denominator.kind = "int"
    THEN [kind |-> "float", value |-> FloatOfRatio(numerator.value, denominator.value)]
    ELSE IF denominator.value = FZero THEN [kind |-> "NonFinite"]
    ELSE [kind |-> "Poly", coeffs |-> PolyScale(numerator.coeffs, FDiv(FOne, denominator.value))]

\* q * y for a Fraction y: float * Fraction is a float
TimesY(q, y) ==
    IF q.kind = "float"
    THEN [kind |-> "float", value |-> DMul(q.value, FractionToFloat(y))]
    ELSE IF q.kind = "NonFinite" THEN q
    ELSE [kind |-> "Poly", coeffs |-> PolyScale(q.coeffs, y)]

\* lagrange_poly += term
Plus(lagrange_poly, term) ==
    IF lagrange_poly.kind = "NonFinite" \/ term.kind = "NonFinite"
    THEN [kind |-> "NonFinite"]
    ELSE IF term.kind = "float"
    THEN [kind |-> "float",
          value |-> DAdd(IF lagrange_poly.kind = "int"
                         THEN PyIntToFloat(PyInt(lagrange_poly.value))
                         ELSE lagrange_poly.value, term.value)]
    ELSE IF lagrange_poly.kind = "int"
    THEN [kind |-> "Poly",
          coeffs |-> PolyAdd(PolyTrim(<<Frac(lagrange_poly.value, 1)>>), term.coeffs)]
    ELSE [kind |-> "Poly", coeffs |-> PolyAdd(lagrange_poly.coeffs, term.coeffs)]

\* sympy.simplify: a Python float becomes a sympy Float, a Python int the
\* constant polynomial; a polynomial is already in canonical form
simplify(e) ==
    IF e.kind = "float" THEN [kind |-> "Float", value |-> e.value]
    ELSE IF e.kind = "int" THEN [kind |-> "Poly", coeffs |-> PolyTrim(<<Frac(e.value, 1)>>)]
    ELSE e

\* numerator after the inner loop has run over j = 1..k
RECURSIVE Numerator(_, _, _)
Numerator(points, i, k) ==
    IF k = 0 THEN PyOne
    ELSE IF k = i THEN Numerator(points, i, k - 1)
    ELSE TimesLinear(Numerator(points, i, k - 1), points[k][1])

\* denominator after the inner loop has run over j = 1..k
RECURSIVE Denominator(_, _, _)
Denominator(points, i, k) ==
    IF k = 0 THEN PyOne
    ELSE IF k = i THEN Denominator(points, i, k - 1)
    ELSE TimesFraction(Denominator(points, i, k - 1), FSub(points[i][1], points[k][1]))

\* A variant that multiplies by the y of the first point, points[0][1]
BasisTermOfFirstPoint(points, i) ==
    TimesY(Quotient(Numerator(points, i, Len(points)), Denominator(points, i, Len(points))),
           points[1][2])

\* (numerator / denominator) * points[i][1]
BasisTerm(points, i) ==
    TimesY(Quotient(Numerator(points, i, Len(points)), Denominator(points, i, Len(points))),
           points[i][2])

\* lagrange_poly after the outer loop has run over i = 1..k
RECURSIVE LagrangeSum(_, _)
LagrangeSum(points, k) ==
    IF k = 0 THEN PyNought
    ELSE Plus(LagrangeSum(points, k - 1), BasisTerm(points, k))

\* ForexLagrangeApp.compute_lagrange_polynomial
compute_lagrange_polynomial(points) == simplify(LagrangeSum(points, Len(points)))

\* lagrange_poly.subs({'x': x_val}) for a float x_val whose text denotes the
\* rational ratio: a constant stays what it is; a polynomial in x becomes a
\* Float that approximates its exact value at x_val
subs(lagrange_poly, x_val) ==
    IF lagrange_poly.kind = "Poly" /\ Len(lagrange_poly.coeffs) >= 2
    THEN [kind |-> "Float", approximates |-> PolyEval(lagrange_poly.coeffs, x_val.ratio)]
    ELSE lagrange_poly

(***************************************************************************)
(* The state of the application.                                            *)
(***************************************************************************)
VARIABLES
    forex_entry,       \* text of the date Entry
    forex_shown,       \* what calculate_forex_rate showed last
    target_value,      \* the local target_value of that call
    num_points_entry,  \* text of the number-of-points Entry
    x_entry,           \* text of the evaluation-x Entry
    point_frames,      \* self.point_frames
    frames_op,         \* the last of generate_point_entries, reset_app, clear_fields
    last,              \* what the handler run since the last edit did
    points,            \* argument of compute_lagrange_polynomial
    lagrange_poly      \* its return value

vars == <<forex_entry, forex_shown, target_value, num_points_entry, x_entry,
          point_frames, frames_op, last, points, lagrange_poly>>

\* Most points of a form, most points of a point list, years of target dates
\* after the series
MaxPoints == 2

MaxPolyPoints == 3

MaxYearsAfter == 0

None == [kind |-> "none"]

Idle == [op |-> "none", raised |-> "none", calls |-> <<>>, shown |-> <<>>,
         read |-> 0, offending |-> <<>>, lagrange_poly |-> None, result |-> None]

NoFramesOp == [op |-> "none", raised |-> "none", num_points |-> 0]

(***************************************************************************)
(* The texts typed into the entries.                                        *)
(***************************************************************************)
IntText(n) == (IF n < 0 THEN <<"-">> ELSE <<>>) \o <<DigitChars[Abs(n) + 1]>>

CountTexts == {<<>>} \cup {IntText(n) : n \in (-1)..MaxPoints}

EvalXTexts == {<<>>, <<"0", ".", "5">>, <<"a", "b">>}

PointXTexts == {<<>>, <<"0">>, <<"1", "/", "2">>, <<"0", ".", "5">>, <<"1", "/", "0">>}

PointYTexts == {<<>>, <<"1">>, <<"a", "b">>}

\* "Y-M-D" without zero padding
UnpaddedDate(year, month, day) ==
    Digits4(year) \o <<"-">> \o StripZeros(Pad2(month)) \o <<"-">> \o StripZeros(Pad2(day))

TargetYears == 2002..(2003 + MaxYearsAfter)

ForexTexts ==
    {IsoDate(y, m, d) : y \in TargetYears, m \in 1..12, d \in {1, 31}}
    \cup {IsoDate(y, 2, d) : y \in TargetYears, d \in {15, 29}}
    \cup {UnpaddedDate(y, m, d) : y \in TargetYears, m \in {1, 10}, d \in {1, 15}}
    \cup {<<>>,
          <<"2", "0", "0", "2", "/", "0", "1", "/", "0", "1">>,
          <<"2", "0", "0", "2", "0", "1", "0", "1">>,
          <<"0", "2", "-", "0", "1", "-", "0", "1">>,
          <<"2", "0", "0", "2", "-", "1", "3", "-", "0", "1">>,
          <<"2", "0", "0", "2", "-", "0", "1", "-", "0", "1", " ">>,
          <<"0", "0", "0", "0", "-", "0", "1", "-", "0", "1">>,
          <<"a", "b">>}

(***************************************************************************)
(* The widgets of the point form.                                           *)
(***************************************************************************)
\* tk.Frame with its Label and two Entry children, as generate_point_entries
\* packs them for point i
NewPointFrame(i) ==
    [alive    |-> TRUE,
     children |-> <<[class |-> "Label", text |-> <<"Point ", i, ":">>],
                    [class |-> "Entry", text |-> <<>>],
                    [class |-> "Entry", text |-> <<>>]>>]

\* frame.destroy(): the frame and its children are gone
Destroy(frame) == [alive |-> FALSE, children |-> <<>>]

\* for frame in self.point_frames: frame.destroy()
DestroyAll(frames) == [i \in 1..Len(frames) |-> Destroy(frames[i])]

\* A variant that forgets self.point_frames.clear()
ClearNothing(frames) == frames

\* self.point_frames.clear()
Clear(frames) == <<>>

\* the loop of generate_point_entries appending num_points new frames
AppendFrames(frames, num_points) ==
    frames \o [i \in 1..BMax(num_points, 0) |-> NewPointFrame(i)]

\* messagebox.showerror of get_points: a fixed message, no text interpolated
ShowError == [kind |-> "showerror", title |-> "Error",
              message |-> "Please enter valid numbers for all points",
              interpolated |-> {}]

\* Whether get_points cannot read a point from the frame
FailsOn(frame) ==
    \/ ~frame.alive
    \/ FractionOfText(frame.children[2].text).raised # "none"
    \/ FractionOfText(frame.children[3].text).raised # "none"

\* The first frame get_points cannot read a point from, or 0
FirstFailing(frames) ==
    IF \E i \in 1..Len(frames) : FailsOn(frames[i])
    THEN CHOOSE i \in 1..Len(frames) :
             FailsOn(frames[i]) /\ \A j \in 1..(i - 1) : ~FailsOn(frames[j])
    ELSE 0

\* The point read from a frame
PointOf(frame) ==
    <<FractionOfText(frame.children[2].text).value,
      FractionOfText(frame.children[3].text).value>>

\* get_points leaving its loop at frame f: Fraction() raised on the x text or,
\* the x text being a number, on the y text.  ValueError is caught: one
\* showerror, return None.  Any other exception leaves the method.
FailAt(f, x_text, x, y_text, y) ==
    IF x.raised = "ValueError" \/ (x.raised = "none" /\ y.raised = "ValueError")
    THEN [raised |-> "none", returned |-> "None", shown |-> <<ShowError>>,
          read |-> f - 1, points |-> <<>>,
          offending |-> IF x.raised # "none" THEN x_text ELSE y_text]
    ELSE [raised |-> IF x.raised # "none" THEN x.raised ELSE y.raised,
          returned |-> "nothing", shown |-> <<>>, read |-> f - 1, points |-> <<>>,
          offending |-> IF x.raised # "none" THEN x_text ELSE y_text]

GetPointsFrom(frames, f) ==
    IF f = 0
    THEN [raised |-> "none", returned |-> "list", shown |-> <<>>, read |-> Len(frames),
          points |-> [i \in 1..Len(frames) |-> PointOf(frames[i])], offending |-> <<>>]
    ELSE IF ~frames[f].alive
    THEN [raised |-> "TclError", returned |-> "nothing", shown |-> <<>>, read |-> f - 1,
          points |-> <<>>, offending |-> <<>>]
    ELSE FailAt(f, frames[f].children[2].text,
                FractionOfText(frames[f].children[2].text),
                frames[f].children[3].text,
                FractionOfText(frames[f].children[3].text))

\* ForexLagrangeApp.get_points: what it returns, raises and shows, with the
\* number of points read and the text Fraction() raised on
get_points(frames) == GetPointsFrom(frames, FirstFailing(frames))

InterpolateRun == [Idle EXCEPT !.op = "interpolate_lagrange"]

\* interpolate_lagrange from line 170 on: latex, the popup, the result
Display(x_val, got, poly, result, renders) ==
    IF poly.kind = "NonFinite" /\ ~renders
    THEN [InterpolateRun EXCEPT
              !.raised = "ValueError", !.read = got.read,
              !.calls = <<"get_points", "compute_lagrange_polynomial",
                          "display_polynomial_in_popup">>,
              !.lagrange_poly = poly, !.result = result]
    ELSE [InterpolateRun EXCEPT
              !.read = got.read,
              !.calls = <<"get_points", "compute_lagrange_polynomial",
                          "display_polynomial_in_popup", "display_result">>,
              !.shown = <<[kind |-> "popup", title |-> "Lagrange Polynomial",
                           latex |-> poly],
                          [kind |-> "showinfo", title |-> "Lagrange Result",
                           result |-> result, x_val |-> x_val.value]>>,
              !.lagrange_poly = poly, !.result = result]

\* interpolate_lagrange from line 167 on
Interpolate(x_val, got, poly, renders) ==
    Display(x_val, got, poly, subs(poly, x_val), renders)

\* interpolate_lagrange from line 163 on
AfterFloat(x_val, got, renders) ==
    IF got.raised # "none" \/ got.returned = "None" \/ got.points = <<>>
    THEN [InterpolateRun EXCEPT !.raised = got.raised, !.calls = <<"get_points">>,
                                !.shown = got.shown, !.read = got.read,
                                !.offending = got.offending]
    ELSE Interpolate(x_val, got, compute_lagrange_polynomial(got.points), renders)

\* ForexLagrangeApp.interpolate_lagrange on the texts of the form; renders
\* says whether the popup's canvas can draw the LaTeX of a non-finite
\* expression (a finite one it can)
interpolate_lagrange(x_text, frames, renders) ==
    IF FloatOfText(x_text).raised # "none"
    THEN [InterpolateRun EXCEPT !.raised = FloatOfText(x_text).raised]
    ELSE AfterFloat(FloatOfText(x_text), get_points(frames), renders)

(***************************************************************************)
(* The handlers.                                                            *)
(***************************************************************************)
SetEntryText(frame, child, text) == [frame EXCEPT !.children[child].text = text]

TypeForexEntry(texts) ==
    /\ \E t \in texts : forex_entry' = t
    /\ forex_shown' = None
    /\ target_value' = None
    /\ last' = Idle
    /\ UNCHANGED <<num_points_entry, x_entry, point_frames, frames_op, points, lagrange_poly>>

TypeNumPoints ==
    /\ \E t \in CountTexts : num_points_entry' = t
    /\ last' = Idle
    /\ UNCHANGED <<forex_entry, forex_shown, target_value, x_entry, point_frames,
                   frames_op, points, lagrange_poly>>

TypeX ==
    /\ \E t \in EvalXTexts : x_entry' = t
    /\ last' = Idle
    /\ UNCHANGED <<forex_entry, forex_shown, target_value, num_points_entry, point_frames,
                   frames_op, points, lagrange_poly>>

TypePointX(texts) ==
    /\ \E i \in 1..Len(point_frames), t \in texts :
          /\ point_frames[i].alive
          /\ point_frames' = [point_frames EXCEPT ![i] = SetEntryText(@, 2, t)]
    /\ last' = Idle
    /\ UNCHANGED <<forex_entry, forex_shown, target_value, num_points_entry, x_entry,
                   frames_op, points, lagrange_poly>>

TypePointY(texts) ==
    /\ \E i \in 1..Len(point_frames), t \in texts :
          /\ point_frames[i].alive
          /\ point_frames' = [point_frames EXCEPT ![i] = SetEntryText(@, 3, t)]
    /\ last' = Idle
    /\ UNCHANGED <<forex_entry, forex_shown, target_value, num_points_entry, x_entry,
                   frames_op, points, lagrange_poly>>

\* ForexLagrangeApp.calculate_forex_rate
CalculateForexRate ==
    LET result == interpolate_exchange_rate(forex_entry)
    IN  /\ forex_shown' = [kind |-> "showinfo", title |-> "Forex Result",
                           message |-> result.text]
        /\ target_value' = result.target_value
        /\ last' = [Idle EXCEPT !.op = "calculate_forex_rate"]
        /\ UNCHANGED <<forex_entry, num_points_entry, x_entry, point_frames, frames_op,
                       points, lagrange_poly>>

\* ForexLagrangeApp.generate_point_entries
GeneratePointEntries ==
    LET num_points == IntOfText(num_points_entry)
    IN  /\ IF num_points.raised # "none"
           THEN /\ last' = [Idle EXCEPT !.op = "generate_point_entries",
                                        !.raised = num_points.raised]
                /\ UNCHANGED <<point_frames, frames_op>>
           ELSE /\ point_frames' = AppendFrames(Clear(DestroyAll(point_frames)),
                                                num_points.value)
                /\ frames_op' = [op |-> "generate_point_entries", raised |-> "none",
                                 num_points |-> num_points.value]
                /\ last' = [Idle EXCEPT !.op = "generate_point_entries"]
        /\ UNCHANGED <<forex_entry, forex_shown, target_value, num_points_entry, x_entry,
                       points, lagrange_poly>>

\* ForexLagrangeApp.reset_app
ResetApp ==
    /\ forex_entry' = <<>>
    /\ x_entry' = <<>>
    /\ point_frames' = Clear(DestroyAll(point_frames))
    /\ frames_op' = [op |-> "reset_app", raised |-> "none", num_points |-> 0]
    /\ last' = [Idle EXCEPT !.op = "reset_app"]
    /\ UNCHANGED <<forex_shown, target_value, num_points_entry, points, lagrange_poly>>

\* ForexLagrangeApp.clear_fields
ClearFields ==
    /\ forex_entry' = <<>>
    /\ x_entry' = <<>>
    /\ point_frames' = Clear(DestroyAll(point_frames))
    /\ frames_op' = [op |-> "clear_fields", raised |-> "none", num_points |-> 0]
    /\ last' = [Idle EXCEPT !.op = "clear_fields"]
    /\ UNCHANGED <<forex_shown, target_value, num_points_entry, points, lagrange_poly>>

\* ForexLagrangeApp.interpolate_lagrange
InterpolateLagrange ==
    /\ \E renders \in BOOLEAN :
          last' = interpolate_lagrange(x_entry, point_frames, renders)
    /\ UNCHANGED <<forex_entry, forex_shown, target_value, num_points_entry, x_entry,
                   point_frames, frames_op, points, lagrange_poly>>

\* The state after ForexLagrangeApp.__init__
Init ==
    /\ forex_entry = <<>>
    /\ forex_shown = None
    /\ target_value = None
    /\ num_points_entry = <<>>
    /\ x_entry = <<>>
    /\ point_frames = <<>>
    /\ frames_op = NoFramesOp
    /\ last = Idle
    /\ points = <<>>
    /\ lagrange_poly = None

\* The Lagrange form
Next ==
    \/ TypeNumPoints
    \/ TypeX
    \/ TypePointX(PointXTexts)
    \/ TypePointY(PointYTexts)
    \/ GeneratePointEntries
    \/ ResetApp
    \/ ClearFields
    \/ InterpolateLagrange

Spec == Init /\ [][Next]_vars

\* The forex lookup
NextForex ==
    \/ TypeForexEntry(ForexTexts)
    \/ CalculateForexRate

SpecForex == Init /\ [][NextForex]_vars

\* The frames of the point form
NextFrames ==
    \/ TypeForexEntry({dates[1]})
    \/ TypeNumPoints
    \/ TypeX
    \/ TypePointX({<<"0">>})
    \/ TypePointY({<<"1">>})
    \/ GeneratePointEntries
    \/ ResetApp
    \/ ClearFields

SpecFrames == Init /\ [][NextFrames]_vars

(***************************************************************************)
(* compute_lagrange_polynomial as a function of its point list.             *)
(***************************************************************************)
PolyXs == {Frac(0, 1), Frac(1, 1), Frac(1, 2), Frac(-1, 1)}

PolyYs == {Frac(1, 1), Frac(1, 3), Frac(-2, 1)}

DistinctXs(pts) == \A i, j \in 1..Len(pts) : i # j => pts[i][1] # pts[j][1]

\* The valid point lists: non-empty, x-values pairwise distinct
PointLists ==
    UNION {{pts \in [1..n -> PolyXs \X PolyYs] : DistinctXs(pts)} : n \in 1..MaxPolyPoints}

InitPoly ==
    /\ forex_entry = <<>>
    /\ forex_shown = None
    /\ target_value = None
    /\ num_points_entry = <<>>
    /\ x_entry = <<>>
    /\ point_frames = <<>>
    /\ frames_op = NoFramesOp
    /\ last = Idle
    /\ points \in PointLists
    /\ lagrange_poly = None

ComputeLagrangePolynomial ==
    /\ lagrange_poly' = compute_lagrange_polynomial(points)
    /\ UNCHANGED <<forex_entry, forex_shown, target_value, num_points_entry, x_entry,
                   point_frames, frames_op, last, points>>

NextPoly == ComputeLagrangePolynomial

SpecPoly == InitPoly /\ [][NextPoly]_vars

(***************************************************************************)
(* The properties.                                                          *)
(***************************************************************************)
Range(s) == {s[i] : i \in 1..Len(s)}

\* Whether expression e takes exactly the rational value y at the rational a
ValueIs(e, a, y) ==
    IF e.kind = "Poly" THEN PolyEval(e.coeffs, a) = y
    ELSE IF e.kind = "Float" THEN FloatEqualsRatio(e.value, y[1], y[2])
    ELSE FALSE

\* C1: for every non-empty point list with pairwise distinct rational
\* x-values, the expression compute_lagrange_polynomial returns takes exactly
\* the value y_i at x_i, for every point (x_i, y_i) of the list.
C1_InterpolatesExactly ==
    lagrange_poly.kind # "none" =>
        \A i \in 1..Len(points) : ValueIs(lagrange_poly, points[i][1], points[i][2])

Permuted(pts, f) == [i \in 1..Len(pts) |-> pts[f[i]]]

\* C3: for every point list with pairwise distinct x-values and every
\* permutation of it, compute_lagrange_polynomial returns for the permuted
\* list the same canonical polynomial (the same coefficient for every
\* exponent) as for the list itself.
C3_PermutationInvariant ==
    lagrange_poly.kind # "none" =>
        \A f \in Permutations(1..Len(points)) :
            compute_lagrange_polynomial(Permuted(points, f)) = lagrange_poly

\* Three points whose polynomial is a quadratic have been computed
C3_QuadraticComputed ==
    /\ lagrange_poly.kind = "Poly"
    /\ Len(points) = 3
    /\ Len(lagrange_poly.coeffs) = 3

\* Whether the date text is the date of sample k
NamesSample(date_str, k) ==
    /\ date_to_num(date_str).raised = "none"
    /\ date_to_num(date_str).value = date_values[k]

\* calculate_forex_rate has shown a rate for the sample date in forex_entry
RateShownForSample(k) ==
    /\ forex_shown.kind = "showinfo"
    /\ NamesSample(forex_entry, k)

RoundingTolerance == FloatOfRatio(1, 1000000000)

RateMessage(date_str, rate) ==
    <<"Interpolated exchange rate for ", date_str, ": ", Format4f(rate)>>

\* The terms of the other samples vanish at the date of sample k
OtherTermsVanish(k) ==
    \A i \in (1..Len(date_values)) \ {k} :
        LagrangeTerm(date_values[k], date_values, exchange_rates, i) = DZero

\* C4, as stated: at the date of sample k lagrange_interpolation returns
\* exchange_rates[k] itself, the term of every other sample being 0, and
\* interpolate_exchange_rate reports that rate.
C4_SampleRateExact ==
    \A k \in 1..Len(dates) :
        RateShownForSample(k) =>
            /\ target_value = exchange_rates[k]
            /\ OtherTermsVanish(k)
            /\ forex_shown.message = RateMessage(forex_entry, exchange_rates[k])

\* C4, amended: at the date of sample k lagrange_interpolation returns
\* exchange_rates[k] up to the rounding of float arithmetic (within 1e-9),
\* the term of every other sample being 0, and the message of
\* interpolate_exchange_rate shows that sample's rate to four decimals.
C4_SampleRateUpToRounding ==
    \A k \in 1..Len(dates) :
        RateShownForSample(k) =>
            /\ DAbsLessEq(DSub(target_value, exchange_rates[k]), RoundingTolerance)
            /\ OtherTermsVanish(k)
            /\ forex_shown.message = RateMessage(forex_entry, exchange_rates[k])

\* A rate has been shown for a sample date at which the sum of the terms is
\* not the float of the sample's rate
C4_RoundedSampleShown ==
    \E k \in 1..Len(dates) :
        /\ RateShownForSample(k)
        /\ forex_entry = dates[k]
        /\ target_value # exchange_rates[k]

\* The text has the shape YYYY-MM-DD: four, two and two digits
ConformsToPattern(str) ==
    /\ Len(str) = 10
    /\ \A i \in {1, 2, 3, 4, 6, 7, 9, 10} : IsDigit(str[i])
    /\ str[5] = "-"
    /\ str[8] = "-"

\* A text of that shape that is no date of the calendar
NamesImpossibleDate(str) ==
    /\ ConformsToPattern(str)
    /\ LET year  == GroupValue(SubSeq(str, 1, 4))
           month == GroupValue(SubSeq(str, 6, 7))
           day   == GroupValue(SubSeq(str, 9, 10))
       IN  \/ year < 1
           \/ month \notin 1..12
           \/ day < 1
           \/ (month \in 1..12 /\ day > DaysInMonth(year, month))

\* C7: for every date text that does not conform to YYYY-MM-DD or names an
\* impossible calendar date, interpolate_exchange_rate returns the
\* invalid-date message as its value and no interpolated rate.
C7_NonConformingDateRejected ==
    (/\ forex_shown.kind = "showinfo"
     /\ (~ConformsToPattern(forex_entry) \/ NamesImpossibleDate(forex_entry)))
    => /\ forex_shown.message = <<InvalidDateMessage>>
       /\ target_value = None

\* interpolate_lagrange has run on the texts of the form
Ran == last.op = "interpolate_lagrange"

Called(name) == name \in Range(last.calls)

Shown(kind) == {i \in 1..Len(last.shown) : last.shown[i].kind = kind}

\* Every entered point parses and two of them have the same x-value
HasDuplicateAbscissa(frames) ==
    /\ FirstFailing(frames) = 0
    /\ \E i, j \in 1..Len(frames) :
          i < j /\ PointOf(frames[i])[1] = PointOf(frames[j])[1]

\* C2: whenever two of the entered points have the same x-value, the
\* request ends in a reported failure: compute_lagrange_polynomial builds no
\* polynomial, and no popup and no result is produced or shown.
C2_DuplicateAbscissaRejected ==
    (/\ Ran
     /\ FloatOfText(x_entry).raised = "none"
     /\ HasDuplicateAbscissa(point_frames))
    => /\ last.raised = "none"
       /\ Shown("showerror") # {}
       /\ ~Called("compute_lagrange_polynomial")
       /\ Shown("popup") = {}
       /\ Shown("showinfo") = {}

\* C5: for every text of the evaluation-x entry, interpolate_lagrange ends
\* with a shown result or with a reported failure, never with an exception
\* leaving the handler; on failure no popup and no result is shown.
C5_NeverRaises ==
    Ran => /\ last.raised = "none"
           /\ \/ Shown("showinfo") # {}
              \/ (Shown("showerror") # {} /\ Shown("popup") = {} /\ Shown("showinfo") = {})

\* C6: when the x or y text of an entered point is no rational number, the
\* error get_points reports carries the text that failed to parse.
C6_ParseErrorNamesToken ==
    (Ran /\ Called("get_points") /\ FirstFailing(point_frames) # 0)
    => \E i \in Shown("showerror") : last.offending \in last.shown[i].interpolated

\* C8: when there are no point entries, the request ends with a reported
\* failure, not silently, and builds no polynomial and no result.
C8_EmptyPointSetReported ==
    (Ran /\ FloatOfText(x_entry).raised = "none" /\ point_frames = <<>>)
    => /\ Shown("showerror") # {}
       /\ ~Called("compute_lagrange_polynomial")
       /\ last.result = None

\* C9: compute_lagrange_polynomial starts only after get_points has read
\* every entered point; when get_points fails on a text it has read the
\* points before the first failing one and no other, reports exactly one
\* error, and compute_lagrange_polynomial, display_polynomial_in_popup and
\* display_result do not run.
C9_ValidationGate ==
    Ran => /\ Called("compute_lagrange_polynomial") => FirstFailing(point_frames) = 0
           /\ (Called("get_points") /\ FirstFailing(point_frames) # 0) =>
                  /\ last.read = FirstFailing(point_frames) - 1
                  /\ Cardinality(Shown("showerror")) = 1
                  /\ ~Called("compute_lagrange_polynomial")
                  /\ ~Called("display_polynomial_in_popup")
                  /\ ~Called("display_result")

\* A frame that is not destroyed and holds one label and two entries
LiveFrame(frame) ==
    /\ frame.alive
    /\ Len(frame.children) = 3
    /\ frame.children[1].class = "Label"
    /\ frame.children[2].class = "Entry"
    /\ frame.children[3].class = "Entry"

AllLive(frames) == \A i \in 1..Len(frames) : LiveFrame(frames[i])

\* A generate_point_entries whose count text is no integer
FailedGenerate(run) == run.op = "generate_point_entries" /\ run.raised # "none"

\* C10, as stated: point_frames holds only live frames of one label and two
\* entries; its length is n after a successful generate_point_entries(n) and
\* 0 after reset_app or clear_fields; a generate_point_entries whose count
\* text is no integer leaves point_frames unchanged.
C10_LengthIsCount ==
    /\ [](/\ AllLive(point_frames)
          /\ frames_op.op = "generate_point_entries" =>
                 Len(point_frames) = frames_op.num_points
          /\ frames_op.op \in {"reset_app", "clear_fields"} => Len(point_frames) = 0)
    /\ [][FailedGenerate(last') => point_frames' = point_frames]_vars

\* C10, amended: point_frames holds only live frames of one label and two
\* entries; its length is max(n, 0) after a successful
\* generate_point_entries(n) and 0 after reset_app or clear_fields; a
\* generate_point_entries whose count text is no integer leaves point_frames
\* unchanged.
C10_LengthIsCountOrZero ==
    /\ [](/\ AllLive(point_frames)
          /\ frames_op.op = "generate_point_entries" =>
                 Len(point_frames) = BMax(frames_op.num_points, 0)
          /\ frames_op.op \in {"reset_app", "clear_fields"} => Len(point_frames) = 0)
    /\ [][FailedGenerate(last') => point_frames' = point_frames]_vars

\* Two frames generated and typed into, then a generate_point_entries whose
\* count text is no integer
C10_FailedGenerateAfterTwoFrames ==
    /\ FailedGenerate(last)
    /\ frames_op.op = "generate_point_entries"
    /\ frames_op.num_points = 2
    /\ Len(point_frames) = 2
    /\ point_frames[1].children[2].text # <<>>


====
